---- MODULE Spec2Model ----
(***************************************************************************)
(* A model of the sqlx helper layer: the KeyValue splitter, the CRUD       *)
(* dispatcher (Meta.Do and the Conn.Easy* helpers) and the registry of     *)
(* named connection pools (RegisterDB / UnregisterDB / Get in sql.go, and  *)
(* New / CloseAll / DB in the later revision of the same file).            *)
(*                                                                         *)
(* SQL text is a sequence of tokens: a column or table name is one token,  *)
(* every punctuation byte the code writes (backquote, comma, =, ?) is a    *)
(* token of its own, and the fixed words of a template are one token each. *)
(***************************************************************************)
EXTENDS Integers, Sequences, FiniteSets

VARIABLES
    kv,        \* splitter: the KeyValue map the splitter is applied to
    got,       \* splitter: what the last Split / SplitWrap call returned
    m,         \* dispatcher: the Meta (operation descriptor) of the call
    fn,        \* dispatcher: the entry point that ran ("none" before the call)
    sent,      \* dispatcher: the calls that reached the connection, in order
    done,      \* dispatcher: the Done wrapper (or the Easy* return values)
    variant,   \* registry: which revision of the package is built
    pool,      \* registry: sql.go's pool, connection name -> *sql.DB
    connPool,  \* registry: the later revision's connPool
    dbs,       \* registry: every *sql.DB opened so far, "open" or "closed"
    reg,       \* registry: the last registry call and what it returned
    txrun,     \* transactions: the ExecTx / ExecBatchTx call and what it did
    proc,      \* locking: each goroutine's position in its registry call
    lock       \* locking: the sync.RWMutex guarding the registry

vars == <<kv, got, m, fn, sent, done, variant, pool, connPool, dbs, reg,
          txrun, proc, lock>>

Nil == "nil"

\* The identifier-quote byte (a backquote) the splitter wraps a column name in.
BQ == "BACKQUOTE"

-----------------------------------------------------------------------------
(* Bounds and input sets                                                   *)

MaxFields == 2
MaxDBs == 3
MaxTxs == 2

SplitKeys == {"Field1", "Field2", "Field3"}
Keys == {"id", "name"}
Vals == {"foo", "bar"}
Table == "profile"

KeyValues(K) == UNION {[D -> Vals] : D \in SUBSET K}

\* The orders in which one range loop may visit the keys of a Go map.
Orders(S) ==
    {o \in [1..Cardinality(S) -> S] : \A x \in S : \E i \in 1..Cardinality(S) : o[i] = x}

FieldLists == UNION {[1..n -> Keys] : n \in 0..MaxFields}

-----------------------------------------------------------------------------
(* KeyValue splitter                                                       *)

\* s[:len(s)-1]: the last byte of a non-empty accumulated string is the
\* separator "," the loop wrote last.
DropLast(s) == SubSeq(s, 1, Len(s) - 1)

RECURSIVE SplitLoop(_, _, _)
SplitLoop(q, order, acc) ==
    IF order = <<>> THEN acc
    ELSE LET k == Head(order) IN
         SplitLoop(q, Tail(order),
                   [ps    |-> acc.ps \o <<"?", ",">>,
                    field |-> acc.field \o <<BQ, k, BQ, ",">>,
                    args  |-> Append(acc.args, q[k])])

\* Split returning its arguments in the opposite order to its fields.
SplitReversed(q, order) ==
    IF Cardinality(DOMAIN q) = 0
    THEN [field |-> <<>>, ps |-> <<>>, args |-> <<>>]
    ELSE LET r == SplitLoop(q, order, [ps |-> <<>>, field |-> <<>>, args |-> <<>>])
         IN [field |-> DropLast(r.field), ps |-> DropLast(r.ps),
             args  |-> [i \in 1..Len(r.args) |-> r.args[Len(r.args) + 1 - i]]]

Split(q, order) ==
    IF Cardinality(DOMAIN q) = 0
    THEN [field |-> <<>>, ps |-> <<>>, args |-> <<>>]
    ELSE LET r == SplitLoop(q, order, [ps |-> <<>>, field |-> <<>>, args |-> <<>>])
         IN [field |-> DropLast(r.field), ps |-> DropLast(r.ps), args |-> r.args]

RECURSIVE SplitWrapLoop(_, _, _)
SplitWrapLoop(q, order, acc) ==
    IF order = <<>> THEN acc
    ELSE LET k == Head(order) IN
         SplitWrapLoop(q, Tail(order),
                       [ps   |-> acc.ps \o <<BQ, k, BQ, "=", "?", ",">>,
                        args |-> Append(acc.args, q[k])])

SplitWrap(q, order) ==
    IF Cardinality(DOMAIN q) = 0
    THEN [ps |-> <<>>, args |-> <<>>]
    ELSE LET r == SplitWrapLoop(q, order, [ps |-> <<>>, args |-> <<>>])
         IN [ps |-> DropLast(r.ps), args |-> r.args]

\* strings.Join(f, sep)
RECURSIVE Join(_, _)
Join(f, sep) ==
    IF Len(f) = 0 THEN <<>>
    ELSE IF Len(f) = 1 THEN <<f[1]>>
    ELSE <<f[1]>> \o sep \o Join(Tail(f), sep)

\* Fields.Join
FieldsJoin(f) == <<BQ>> \o Join(f, <<BQ, ",", BQ>>) \o <<BQ>>

NoSplit == [call |-> "none", field |-> <<>>, ps |-> <<>>, args |-> <<>>]

DoSplit ==
    /\ got.call = "none"
    /\ \E order \in Orders(DOMAIN kv) :
         LET r == Split(kv, order) IN
         got' = [call |-> "Split",
                 field |-> r.field, ps |-> r.ps, args |-> r.args]
    /\ UNCHANGED <<txrun, proc, lock, kv, m, fn, sent, done, variant, pool, connPool, dbs, reg>>

DoSplitWrap ==
    /\ got.call = "none"
    /\ \E order \in Orders(DOMAIN kv) :
         LET r == SplitWrap(kv, order) IN
         got' = [call |-> "SplitWrap",
                 field |-> <<>>, ps |-> r.ps, args |-> r.args]
    /\ UNCHANGED <<txrun, proc, lock, kv, m, fn, sent, done, variant, pool, connPool, dbs, reg>>

-----------------------------------------------------------------------------
(* Connection primitives.  The driver is outside the library: drv is what  *)
(* it does with the one statement of the call.                             *)

DriverOutcomes == {"ok", "prepareErr", "execErr", "rowsAffectedErr", "queryErr"}

ErrResultNil == "sqlx:result is nil"
ErrInvalidCurd == "sqlx:invalid operation"

\* Conn.execute: Prepare, then Exec on the prepared statement.
execute(drv) ==
    IF drv = "prepareErr" THEN [result |-> Nil, err |-> "prepare error"]
    ELSE IF drv = "execErr" THEN [result |-> Nil, err |-> "exec error"]
    ELSE [result |-> "sql.Result", err |-> Nil]

\* Conn.QueryRow: db.QueryRow always returns a Row; a failure is carried in it.
QueryRow(drv) == "sql.Row"

\* Conn.QueryRows: db.Query returns the iterator or the error.
QueryRows(drv) ==
    IF drv = "queryErr" THEN [rows |-> Nil, err |-> "query error"]
    ELSE [rows |-> "sql.Rows", err |-> Nil]

\* Conn.TraceExec: db.Exec, then result.RowsAffected.
TraceExec(drv) ==
    IF drv = "execErr" THEN [result |-> Nil, err |-> "exec error"]
    ELSE IF drv = "rowsAffectedErr" THEN [result |-> Nil, err |-> "rows affected error"]
    ELSE [result |-> "sql.Result", err |-> Nil]

\* Conn.TraceSelect: db.QueryRow never returns nil.
TraceSelect(drv) == "sql.Row"

\* Conn.TraceSelectBatch: nil on error.
TraceSelectBatch(drv) == IF drv = "queryErr" THEN Nil ELSE "sql.Rows"

-----------------------------------------------------------------------------
(* Statement templates (fmt.Sprintf of the raw* constants)                 *)

rawInsert(table, fields, pd) ==
    <<"INSERT INTO ", table, "(">> \o fields \o <<")VALUES(">> \o pd \o <<")">>

rawUpdate(table, fields, where) ==
    <<"UPDATE ", table, " SET ">> \o fields \o <<" WHERE ">> \o where

rawDelete(table, where) == <<"DELETE FROM ", table, " WHERE ">> \o where

rawQuery(search, table, where) ==
    <<"SELECT ">> \o search \o <<" FROM ", table, " WHERE ">> \o where

-----------------------------------------------------------------------------
(* Dispatcher                                                              *)

C == 0
U == 1
R == 2
D == 3

\* Curd is a uint8: every value but C, U, R, D is an unrecognised kind.
OpKinds == {C, U, R, D, 4, 255}

Metas ==
    [Op : OpKinds, Table : {Table},
     Query : [Fields : FieldLists, Batch : BOOLEAN],
     Values : KeyValues(Keys), Where : KeyValues(Keys)]

NoDone == [result |-> Nil, row |-> Nil, rows |-> Nil, Err |-> Nil]

Sent(prim, query, args) == [prim |-> prim, query |-> query, args |-> args]

\* Case U with the condition arguments merged before the value arguments.
DoUpdateWhereFirst(mm, ov, ow, drv) ==
    LET f == SplitWrap(mm.Values, ov)
        w == SplitWrap(mm.Where, ow)
        merge == w.args \o f.args
        r == execute(drv)
    IN [sent |-> <<Sent("Update", rawUpdate(mm.Table, f.ps, w.ps), merge)>>,
        done |-> [NoDone EXCEPT !.result = r.result, !.Err = r.err]]

\* Meta.Do, case U.  ov and ow are the orders in which the two SplitWrap
\* loops visit Values and Where.
DoUpdate(mm, ov, ow, drv) ==
    LET f == SplitWrap(mm.Values, ov)
        w == SplitWrap(mm.Where, ow)
        merge == f.args \o w.args
        r == execute(drv)
    IN [sent |-> <<Sent("Update", rawUpdate(mm.Table, f.ps, w.ps), merge)>>,
        done |-> [NoDone EXCEPT !.result = r.result, !.Err = r.err]]

\* Case R filling the row as well as the rows of a batch query.
DoReadKeepsRow(mm, ow, drv) ==
    LET w == SplitWrap(mm.Where, ow)
        search == IF Len(mm.Query.Fields) > 0
                  THEN Join(mm.Query.Fields, <<",">>)
                  ELSE <<"*">>
        q == rawQuery(search, mm.Table, w.ps)
        r == QueryRows(drv)
    IN IF mm.Query.Batch
       THEN [sent |-> <<Sent("QueryRows", q, w.args)>>,
             done |-> [NoDone EXCEPT !.rows = r.rows, !.Err = r.err,
                                     !.row = QueryRow(drv)]]
       ELSE [sent |-> <<Sent("QueryRow", q, w.args)>>,
             done |-> [NoDone EXCEPT !.row = QueryRow(drv)]]

\* Meta.Do, case R.
DoRead(mm, ow, drv) ==
    LET w == SplitWrap(mm.Where, ow)
        search == IF Len(mm.Query.Fields) > 0
                  THEN Join(mm.Query.Fields, <<",">>)
                  ELSE <<"*">>
        q == rawQuery(search, mm.Table, w.ps)
    IN IF mm.Query.Batch
       THEN LET r == QueryRows(drv) IN
            [sent |-> <<Sent("QueryRows", q, w.args)>>,
             done |-> [NoDone EXCEPT !.rows = r.rows, !.Err = r.err]]
       ELSE [sent |-> <<Sent("QueryRow", q, w.args)>>,
             done |-> [NoDone EXCEPT !.row = QueryRow(drv)]]

\* Meta.Do, case C.
DoCreate(mm, ov, drv) ==
    LET s == Split(mm.Values, ov)
        r == execute(drv)
    IN [sent |-> <<Sent("Create", rawInsert(mm.Table, s.field, s.ps), s.args)>>,
        done |-> [NoDone EXCEPT !.result = r.result, !.Err = r.err]]

\* Meta.Do, case D.
DoDelete(mm, ow, drv) ==
    LET w == SplitWrap(mm.Where, ow)
        r == execute(drv)
    IN [sent |-> <<Sent("Delete", rawDelete(mm.Table, w.ps), w.args)>>,
        done |-> [NoDone EXCEPT !.result = r.result, !.Err = r.err]]

\* Meta.Do with case D as the default of the switch.
MetaDoDefaultDeletes(mm, ov, ow, drv) ==
    IF mm.Op = C THEN DoCreate(mm, ov, drv)
    ELSE IF mm.Op = U THEN DoUpdate(mm, ov, ow, drv)
    ELSE IF mm.Op = R THEN DoRead(mm, ow, drv)
    ELSE DoDelete(mm, ow, drv)

\* Meta.Do: the switch on m.Op, and the fall-out for every other kind.
MetaDo(mm, ov, ow, drv) ==
    IF mm.Op = C THEN DoCreate(mm, ov, drv)
    ELSE IF mm.Op = U THEN DoUpdate(mm, ov, ow, drv)
    ELSE IF mm.Op = R THEN DoRead(mm, ow, drv)
    ELSE IF mm.Op = D THEN DoDelete(mm, ow, drv)
    ELSE [sent |-> <<>>, done |-> [NoDone EXCEPT !.Err = ErrInvalidCurd]]

\* Done.LastInsertId
LastInsertId(d) ==
    IF d.result # Nil THEN [id |-> "driver", err |-> "driver"]
    ELSE [id |-> -1, err |-> ErrResultNil]

\* Done.RowsAffected
RowsAffected(d) ==
    IF d.result # Nil THEN [n |-> "driver", err |-> "driver"]
    ELSE [n |-> -1, err |-> ErrResultNil]

\* Done.Row
Row(d) == d.row

\* Done.Rows
Rows(d) == [rows |-> d.rows, err |-> d.Err]

\* Conn.EasyInsert
EasyInsert(table, q, ov, drv) ==
    IF Cardinality(DOMAIN q) = 0
    THEN [sent |-> <<>>, done |-> [NoDone EXCEPT !.Err = "invalid insert values"]]
    ELSE LET s == Split(q, ov)
             r == TraceExec(drv)
         IN [sent |-> <<Sent("Exec", rawInsert(table, s.field, s.ps), s.args)>>,
             done |-> [NoDone EXCEPT !.result = r.result, !.Err = r.err]]

\* Conn.EasyDelete
EasyDelete(table, where, ow, drv) ==
    IF Cardinality(DOMAIN where) = 0
    THEN [sent |-> <<>>, done |-> [NoDone EXCEPT !.Err = "invalid delete condition"]]
    ELSE LET w == SplitWrap(where, ow)
             r == TraceExec(drv)
         IN [sent |-> <<Sent("Exec", rawDelete(table, w.ps), w.args)>>,
             done |-> [NoDone EXCEPT !.result = r.result, !.Err = r.err]]

\* Conn.EasyUpdate
EasyUpdate(table, q, where, ov, ow, drv) ==
    IF Cardinality(DOMAIN q) = 0 \/ Cardinality(DOMAIN where) = 0
    THEN [sent |-> <<>>, done |-> [NoDone EXCEPT !.Err = "invalid update KeyValue"]]
    ELSE LET s == SplitWrap(q, ov)
             w == SplitWrap(where, ow)
             setArgs == s.args \o w.args
             r == TraceExec(drv)
         IN [sent |-> <<Sent("Exec", rawUpdate(table, s.ps, w.ps), setArgs)>>,
             done |-> [NoDone EXCEPT !.result = r.result, !.Err = r.err]]

\* Conn.EasySelect: an empty Row, and no query, without fields or conditions.
EasySelect(table, fields, where, ow, drv) ==
    IF Len(fields) = 0 \/ Cardinality(DOMAIN where) = 0
    THEN [sent |-> <<>>, done |-> [NoDone EXCEPT !.row = "empty sql.Row"]]
    ELSE LET w == SplitWrap(where, ow)
             query == rawQuery(FieldsJoin(fields), table, w.ps)
         IN [sent |-> <<Sent("QueryRow", query, w.args)>>,
             done |-> [NoDone EXCEPT !.row = TraceSelect(drv)]]

\* Conn.EasySelectBatch
EasySelectBatch(table, fields, where, ow, drv) ==
    IF Len(fields) = 0
    THEN [sent |-> <<>>, done |-> NoDone]
    ELSE LET w == SplitWrap(where, ow)
             query == rawQuery(FieldsJoin(fields), table, w.ps)
         IN [sent |-> <<Sent("Query", query, w.args)>>,
             done |-> [NoDone EXCEPT !.rows = TraceSelectBatch(drv)]]

\* One call of an entry point on the descriptor m; r is what it computed.
Returns(name, r) ==
    /\ fn' = name
    /\ sent' = r.sent
    /\ done' = r.done
    /\ UNCHANGED <<txrun, proc, lock, kv, got, m, variant, pool, connPool, dbs, reg>>

Do ==
    /\ fn = "none"
    /\ \E ov \in Orders(DOMAIN m.Values), ow \in Orders(DOMAIN m.Where),
          drv \in DriverOutcomes :
         Returns("Do", MetaDo(m, ov, ow, drv))

EasyInsertCall ==
    /\ fn = "none"
    /\ \E ov \in Orders(DOMAIN m.Values), drv \in DriverOutcomes :
         Returns("EasyInsert", EasyInsert(m.Table, m.Values, ov, drv))

EasyDeleteCall ==
    /\ fn = "none"
    /\ \E ow \in Orders(DOMAIN m.Where), drv \in DriverOutcomes :
         Returns("EasyDelete", EasyDelete(m.Table, m.Where, ow, drv))

EasyUpdateCall ==
    /\ fn = "none"
    /\ \E ov \in Orders(DOMAIN m.Values), ow \in Orders(DOMAIN m.Where),
          drv \in DriverOutcomes :
         Returns("EasyUpdate", EasyUpdate(m.Table, m.Values, m.Where, ov, ow, drv))

EasySelectCall ==
    /\ fn = "none"
    /\ \E ow \in Orders(DOMAIN m.Where), drv \in DriverOutcomes :
         Returns("EasySelect", EasySelect(m.Table, m.Query.Fields, m.Where, ow, drv))

EasySelectBatchCall ==
    /\ fn = "none"
    /\ \E ow \in Orders(DOMAIN m.Where), drv \in DriverOutcomes :
         Returns("EasySelectBatch",
                 EasySelectBatch(m.Table, m.Query.Fields, m.Where, ow, drv))

-----------------------------------------------------------------------------
(* Connection registry.  sql.go (RegisterDB, UnregisterDB, Get over pool)  *)
(* and its later revision (New, CloseAll, DB over connPool) declare the    *)
(* same package-level names, so a build holds one of the two: variant.     *)

ErrUnregister == "unregistered database connection"
ErrConnName == "connection is not registered"
ErrConfig == "incorrect config parameters"

Variants == {"RegisterDB", "New"}

\* The names a batch may register; LookupNames adds one that never is.
Names == {"", "game"}
LookupNames == Names \cup {"log"}

GoodConfig ==
    [DSN |-> "dsn", MaxOpenConns |-> 100, MaxIdleConns |-> 20,
     MaxLifetime |-> 100, MaxIdleTime |-> 3600]

Configs ==
    {GoodConfig,
     [GoodConfig EXCEPT !.DSN = ""],
     [GoodConfig EXCEPT !.MaxOpenConns = -1],
     [GoodConfig EXCEPT !.MaxIdleConns = -1],
     [GoodConfig EXCEPT !.MaxLifetime = -1],
     [GoodConfig EXCEPT !.MaxIdleTime = -1],
     [GoodConfig EXCEPT !.MaxOpenConns = 0, !.MaxIdleConns = 0,
                        !.MaxLifetime = 0, !.MaxIdleTime = 0]}

Batches == UNION {[N -> Configs] : N \in SUBSET Names}

\* What the driver does with one entry of a batch: sql.Open may fail, the
\* opened pool may fail its Ping.
OpenOutcomes == {"ok", "openErr", "pingErr"}

\* Config.Validate of the later revision (sql.go's is a stub returning true
\* that RegisterDB never calls).
ConfigValidate(c) ==
    /\ c.DSN # ""
    /\ c.MaxOpenConns >= 0
    /\ c.MaxIdleConns >= 0
    /\ c.MaxLifetime >= 0
    /\ c.MaxIdleTime >= 0

\* ConfigMap.Validate
ConfigMapValidate(cmp) == \A n \in DOMAIN cmp : ConfigValidate(cmp[n])

EmptyPool == [n \in {} |-> 0]

\* pool[s] = conn
Store(p, s, id) == [n \in DOMAIN p \cup {s} |-> IF n = s THEN id ELSE p[n]]

\* The loop storing a pool under its name before it has answered the Ping.
RECURSIVE RegisterLoopStoresFirst(_, _, _, _)
RegisterLoopStoresFirst(order, outcome, p, d) ==
    IF order = <<>> THEN [pool |-> p, dbs |-> d, err |-> Nil]
    ELSE LET s == Head(order) IN
         IF outcome[s] = "openErr"
         THEN [pool |-> p, dbs |-> d, err |-> "open error"]
         ELSE LET d2 == Append(d, "open") IN
              IF outcome[s] = "pingErr"
              THEN [pool |-> Store(p, s, Len(d2)), dbs |-> d2, err |-> "ping error"]
              ELSE RegisterLoopStoresFirst(Tail(order), outcome, Store(p, s, Len(d2)), d2)

\* The loop of RegisterDB and of New: Open, Ping, store; the first error
\* returns.  order is the order in which the range loop visits the batch.
RECURSIVE RegisterLoop(_, _, _, _)
RegisterLoop(order, outcome, p, d) ==
    IF order = <<>> THEN [pool |-> p, dbs |-> d, err |-> Nil]
    ELSE LET s == Head(order) IN
         IF outcome[s] = "openErr"
         THEN [pool |-> p, dbs |-> d, err |-> "open error"]
         ELSE LET d2 == Append(d, "open") IN
              IF outcome[s] = "pingErr"
              THEN [pool |-> p, dbs |-> d2, err |-> "ping error"]
              ELSE RegisterLoop(Tail(order), outcome, Store(p, s, Len(d2)), d2)

\* RegisterDB (sql.go)
RegisterDB(configs, order, outcome, p, d) == RegisterLoop(order, outcome, p, d)

\* New (later revision)
New(configs, order, outcome, p, d) ==
    IF ~ConfigMapValidate(configs)
    THEN [pool |-> p, dbs |-> d, err |-> ErrConfig]
    ELSE RegisterLoop(order, outcome, p, d)

\* The sweep of UnregisterDB and CloseAll: Close(db) for every db of the map.
\* Closing a closed pool is a no-op, and the error of Close is dropped.
CloseSweep(p, d) ==
    [i \in 1..Len(d) |-> IF \E n \in DOMAIN p : p[n] = i THEN "closed" ELSE d[i]]

\* UnregisterDB (sql.go)
UnregisterDB(p, d) == [pool |-> p, dbs |-> CloseSweep(p, d)]

\* CloseAll (later revision)
CloseAll(p, d) == [pool |-> p, dbs |-> CloseSweep(p, d)]

\* A *Conn: nil, or &Conn{db: id}.
NilConn == [isNil |-> TRUE, db |-> 0]
Conn(id) == [isNil |-> FALSE, db |-> id]

\* Get without the test for the empty name.
GetSkipsNameCheck(connName, p) ==
    IF connName \in DOMAIN p THEN [conn |-> Conn(p[connName]), err |-> Nil]
    ELSE [conn |-> NilConn, err |-> ErrUnregister]

\* Get (sql.go; DB in its second half is the same function)
Get(connName, p) ==
    IF connName = "" THEN [conn |-> NilConn, err |-> ErrConnName]
    ELSE IF connName \in DOMAIN p THEN [conn |-> Conn(p[connName]), err |-> Nil]
    ELSE [conn |-> NilConn, err |-> ErrUnregister]

\* DB (later revision)
DB(connName, p) ==
    IF connName = "" THEN [conn |-> NilConn, err |-> ErrConnName]
    ELSE IF connName \in DOMAIN p THEN [conn |-> Conn(p[connName]), err |-> Nil]
    ELSE [conn |-> NilConn, err |-> ErrUnregister]

NoReg == [op |-> "none", name |-> Nil, names |-> {}, valid |-> TRUE,
          err |-> Nil, conn |-> NilConn]

RegisterDBCall ==
    /\ variant = "RegisterDB"
    /\ \E configs \in Batches :
         \E order \in Orders(DOMAIN configs), outcome \in [DOMAIN configs -> OpenOutcomes] :
           LET r == RegisterDB(configs, order, outcome, pool, dbs) IN
           /\ Len(r.dbs) <= MaxDBs
           /\ pool' = r.pool
           /\ dbs' = r.dbs
           /\ reg' = [NoReg EXCEPT !.op = "RegisterDB", !.names = DOMAIN configs,
                                   !.valid = ConfigMapValidate(configs), !.err = r.err]
    /\ UNCHANGED <<txrun, proc, lock, kv, got, m, fn, sent, done, variant, connPool>>

NewCall ==
    /\ variant = "New"
    /\ \E configs \in Batches :
         \E order \in Orders(DOMAIN configs), outcome \in [DOMAIN configs -> OpenOutcomes] :
           LET r == New(configs, order, outcome, connPool, dbs) IN
           /\ Len(r.dbs) <= MaxDBs
           /\ connPool' = r.pool
           /\ dbs' = r.dbs
           /\ reg' = [NoReg EXCEPT !.op = "New", !.names = DOMAIN configs,
                                   !.valid = ConfigMapValidate(configs), !.err = r.err]
    /\ UNCHANGED <<txrun, proc, lock, kv, got, m, fn, sent, done, variant, pool>>

UnregisterDBCall ==
    /\ variant = "RegisterDB"
    /\ LET r == UnregisterDB(pool, dbs) IN
       /\ pool' = r.pool
       /\ dbs' = r.dbs
    /\ reg' = [NoReg EXCEPT !.op = "UnregisterDB"]
    /\ UNCHANGED <<txrun, proc, lock, kv, got, m, fn, sent, done, variant, connPool>>

CloseAllCall ==
    /\ variant = "New"
    /\ LET r == CloseAll(connPool, dbs) IN
       /\ connPool' = r.pool
       /\ dbs' = r.dbs
    /\ reg' = [NoReg EXCEPT !.op = "CloseAll"]
    /\ UNCHANGED <<txrun, proc, lock, kv, got, m, fn, sent, done, variant, pool>>

GetCall ==
    /\ variant = "RegisterDB"
    /\ \E connName \in LookupNames :
         LET r == Get(connName, pool) IN
         reg' = [NoReg EXCEPT !.op = "Get", !.name = connName,
                              !.err = r.err, !.conn = r.conn]
    /\ UNCHANGED <<txrun, proc, lock, kv, got, m, fn, sent, done, variant, pool, connPool, dbs>>

DBCall ==
    /\ variant = "New"
    /\ \E connName \in LookupNames :
         LET r == DB(connName, connPool) IN
         reg' = [NoReg EXCEPT !.op = "DB", !.name = connName,
                              !.err = r.err, !.conn = r.conn]
    /\ UNCHANGED <<txrun, proc, lock, kv, got, m, fn, sent, done, variant, pool, connPool, dbs>>


-----------------------------------------------------------------------------
(* The registry under concurrent callers                                   *)

\* The goroutines calling into the registry.
Procs == {"g1", "g2"}

\* A goroutine: where it stands in its call (pc), the function it called,
\* the name it looks up, the names its range loop has yet to visit, what
\* Validate said of its batch, the names it has stored, and what it returns.
IdleProc == [pc |-> "idle", op |-> "none", name |-> Nil, todo |-> {},
             valid |-> TRUE, added |-> {}, conn |-> NilConn, err |-> Nil]

\* locker / poolLock, a sync.RWMutex: w is the goroutine that holds or is
\* taking the write lock, r the goroutines that hold the read lock.
FreeLock == [w |-> Nil, r |-> {}]

\* RLock letting a reader in past a writer.
CanRLockIgnoresWriter(l) == TRUE

\* Lock() first takes the writers' mutex, which shuts new readers out,
\* then waits until the readers that were in have left.
CanLock(l) == l.w = Nil
Lock(l, p) == [l EXCEPT !.w = p]
ReadersGone(l) == l.r = {}

\* RLock() blocks while a writer holds or is taking the lock.
CanRLock(l) == l.w = Nil
RLock(l, p) == [l EXCEPT !.r = @ \cup {p}]

Unlock(l, p) == [l EXCEPT !.w = Nil]
RUnlock(l, p) == [l EXCEPT !.r = @ \ {p}]

\* The map of the build.
TheMap == IF variant = "RegisterDB" THEN pool ELSE connPool

\* The pools still to be opened by the calls in flight.
RECURSIVE Pending(_)
Pending(P) ==
    IF P = {} THEN 0
    ELSE LET p == CHOOSE x \in P : TRUE IN Cardinality(proc[p].todo) + Pending(P \ {p})

\* The batches the concurrent callers register.
LockBatches ==
    UNION {[N -> {GoodConfig, [GoodConfig EXCEPT !.DSN = ""]}] : N \in SUBSET Names}

\* A goroutine calls RegisterDB or New with a batch.
Enter(p, op, configs) ==
    /\ Len(dbs) + Pending(Procs) + Cardinality(DOMAIN configs) <= MaxDBs
    /\ proc' = [proc EXCEPT ![p] =
                  [IdleProc EXCEPT !.pc = "Lock", !.op = op,
                                   !.todo = DOMAIN configs,
                                   !.valid = ConfigMapValidate(configs)]]
    /\ UNCHANGED <<lock, pool, connPool, dbs>>

RegisterDBEnter(p) ==
    /\ variant = "RegisterDB"
    /\ proc[p].pc = "idle"
    /\ \E configs \in LockBatches : Enter(p, "RegisterDB", configs)
    /\ UNCHANGED <<kv, got, m, fn, sent, done, variant, reg, txrun>>

NewEnter(p) ==
    /\ variant = "New"
    /\ proc[p].pc = "idle"
    /\ \E configs \in LockBatches : Enter(p, "New", configs)
    /\ UNCHANGED <<kv, got, m, fn, sent, done, variant, reg, txrun>>

\* A goroutine calls UnregisterDB or CloseAll.
UnregisterDBEnter(p) ==
    /\ variant = "RegisterDB"
    /\ proc[p].pc = "idle"
    /\ proc' = [proc EXCEPT ![p] = [IdleProc EXCEPT !.pc = "Lock", !.op = "UnregisterDB"]]
    /\ UNCHANGED <<lock, pool, connPool, dbs, kv, got, m, fn, sent, done, variant, reg, txrun>>

CloseAllEnter(p) ==
    /\ variant = "New"
    /\ proc[p].pc = "idle"
    /\ proc' = [proc EXCEPT ![p] = [IdleProc EXCEPT !.pc = "Lock", !.op = "CloseAll"]]
    /\ UNCHANGED <<lock, pool, connPool, dbs, kv, got, m, fn, sent, done, variant, reg, txrun>>

\* A goroutine calls Get or DB: the empty name returns before the lock.
LookupEnter(p, op, connName) ==
    /\ proc' = [proc EXCEPT ![p] =
                  IF connName = ""
                  THEN [IdleProc EXCEPT !.pc = "return", !.op = op, !.name = connName,
                                        !.err = ErrConnName]
                  ELSE [IdleProc EXCEPT !.pc = "RLock", !.op = op, !.name = connName]]
    /\ UNCHANGED <<lock, pool, connPool, dbs>>

GetEnter(p) ==
    /\ variant = "RegisterDB"
    /\ proc[p].pc = "idle"
    /\ \E connName \in LookupNames : LookupEnter(p, "Get", connName)
    /\ UNCHANGED <<kv, got, m, fn, sent, done, variant, reg, txrun>>

DBEnter(p) ==
    /\ variant = "New"
    /\ proc[p].pc = "idle"
    /\ \E connName \in LookupNames : LookupEnter(p, "DB", connName)
    /\ UNCHANGED <<kv, got, m, fn, sent, done, variant, reg, txrun>>

\* locker.Lock(), first half: take the writers' mutex.
LockStep(p) ==
    /\ proc[p].pc = "Lock"
    /\ CanLock(lock)
    /\ lock' = Lock(lock, p)
    /\ proc' = [proc EXCEPT ![p].pc = "LockWait"]
    /\ UNCHANGED <<pool, connPool, dbs, kv, got, m, fn, sent, done, variant, reg, txrun>>

\* locker.Lock(), second half: the readers have left; the body starts.
LockWaitStep(p) ==
    /\ proc[p].pc = "LockWait"
    /\ ReadersGone(lock)
    /\ proc' = [proc EXCEPT ![p].pc =
                  IF proc[p].op = "New" THEN "Validate"
                  ELSE IF proc[p].op = "RegisterDB" THEN "range"
                  ELSE "sweep"]
    /\ UNCHANGED <<lock, pool, connPool, dbs, kv, got, m, fn, sent, done, variant, reg, txrun>>

\* New: if !configs.Validate() { return ... }
ValidateStep(p) ==
    /\ proc[p].pc = "Validate"
    /\ proc' = [proc EXCEPT ![p] =
                  IF proc[p].valid THEN [@ EXCEPT !.pc = "range"]
                  ELSE [@ EXCEPT !.pc = "Unlock", !.err = ErrConfig]]
    /\ UNCHANGED <<lock, pool, connPool, dbs, kv, got, m, fn, sent, done, variant, reg, txrun>>

\* One turn of the range loop of RegisterDB / New, on whichever entry the
\* map iteration yields next: Open, Ping, store; the loop ends with the
\* batch or at the first error.
RangeStep(p) ==
    /\ proc[p].pc = "range"
    /\ IF proc[p].todo = {}
       THEN /\ proc' = [proc EXCEPT ![p].pc = "Unlock"]
            /\ UNCHANGED <<pool, connPool, dbs>>
       ELSE \E s \in proc[p].todo, outcome \in OpenOutcomes :
              LET r == RegisterLoop(<<s>>, [n \in {s} |-> outcome], TheMap, dbs) IN
              /\ dbs' = r.dbs
              /\ IF variant = "RegisterDB"
                 THEN pool' = r.pool /\ UNCHANGED connPool
                 ELSE connPool' = r.pool /\ UNCHANGED pool
              /\ proc' = [proc EXCEPT ![p] =
                            IF r.err # Nil
                            THEN [@ EXCEPT !.pc = "Unlock", !.todo = {}, !.err = r.err]
                            ELSE [@ EXCEPT !.todo = @ \ {s}, !.added = @ \cup {s}]]
    /\ UNCHANGED <<lock, kv, got, m, fn, sent, done, variant, reg, txrun>>

\* The sweep of UnregisterDB / CloseAll.
SweepStep(p) ==
    /\ proc[p].pc = "sweep"
    /\ dbs' = IF variant = "RegisterDB" THEN UnregisterDB(pool, dbs).dbs
              ELSE CloseAll(connPool, dbs).dbs
    /\ proc' = [proc EXCEPT ![p].pc = "Unlock"]
    /\ UNCHANGED <<lock, pool, connPool, kv, got, m, fn, sent, done, variant, reg, txrun>>

\* defer locker.Unlock()
UnlockStep(p) ==
    /\ proc[p].pc = "Unlock"
    /\ lock' = Unlock(lock, p)
    /\ proc' = [proc EXCEPT ![p].pc = "return"]
    /\ UNCHANGED <<pool, connPool, dbs, kv, got, m, fn, sent, done, variant, reg, txrun>>

\* locker.RLock()
RLockStep(p) ==
    /\ proc[p].pc = "RLock"
    /\ CanRLock(lock)
    /\ lock' = RLock(lock, p)
    /\ proc' = [proc EXCEPT ![p].pc = "lookup"]
    /\ UNCHANGED <<pool, connPool, dbs, kv, got, m, fn, sent, done, variant, reg, txrun>>

\* if p, ok := pool[connName]; ok { ... }
LookupStep(p) ==
    /\ proc[p].pc = "lookup"
    /\ LET r == IF variant = "RegisterDB" THEN Get(proc[p].name, pool)
                ELSE DB(proc[p].name, connPool)
       IN proc' = [proc EXCEPT ![p] = [@ EXCEPT !.pc = "RUnlock", !.conn = r.conn,
                                                  !.err = r.err]]
    /\ UNCHANGED <<lock, pool, connPool, dbs, kv, got, m, fn, sent, done, variant, reg, txrun>>

\* defer locker.RUnlock()
RUnlockStep(p) ==
    /\ proc[p].pc = "RUnlock"
    /\ lock' = RUnlock(lock, p)
    /\ proc' = [proc EXCEPT ![p].pc = "return"]
    /\ UNCHANGED <<pool, connPool, dbs, kv, got, m, fn, sent, done, variant, reg, txrun>>

\* The call returns to its caller.
ReturnStep(p) ==
    /\ proc[p].pc = "return"
    /\ proc' = [proc EXCEPT ![p] = IdleProc]
    /\ UNCHANGED <<lock, pool, connPool, dbs, kv, got, m, fn, sent, done, variant, reg, txrun>>


\* Conn.Ping on the handle the last lookup returned: the pool answers, or
\* fails; a closed pool always fails.
ConnPing(c, d, answer) ==
    IF d[c.db] = "closed" THEN "sql: database is closed" ELSE answer

\* Close(db) for a non-nil db: db.Close(); the local db = nil changes nothing
\* the caller sees.
Close(id, d) == [d EXCEPT ![id] = "closed"]

\* Conn.Close
ConnClose(c, d) == Close(c.db, d)

ConnPingCall ==
    /\ ~reg.conn.isNil
    /\ \E answer \in {Nil, "ping error"} :
         reg' = [reg EXCEPT !.op = "Conn.Ping", !.err = ConnPing(reg.conn, dbs, answer)]
    /\ UNCHANGED <<txrun, proc, lock, kv, got, m, fn, sent, done, variant, pool, connPool, dbs>>

ConnStatsCall ==
    /\ ~reg.conn.isNil
    /\ reg' = [reg EXCEPT !.op = "Conn.Stats", !.err = Nil]
    /\ UNCHANGED <<txrun, proc, lock, kv, got, m, fn, sent, done, variant, pool, connPool, dbs>>

ConnCloseCall ==
    /\ ~reg.conn.isNil
    /\ dbs' = ConnClose(reg.conn, dbs)
    /\ reg' = [reg EXCEPT !.op = "Conn.Close", !.err = Nil]
    /\ UNCHANGED <<txrun, proc, lock, kv, got, m, fn, sent, done, variant, pool, connPool>>

-----------------------------------------------------------------------------
(* Prepared statements and transactions: Conn.execute, Conn.ExecTx and     *)
(* Conn.ExecBatchTx.  The driver's answers are the script o of the run.    *)
(* database/sql closes the statements prepared on a Tx when the Tx is      *)
(* committed or rolled back, unless the driver reports a bad connection.   *)

TxScripts(n) ==
    [begin : {"ok", "err"},
     prep : [1..n -> {"ok", "err"}],
     exec : [1..n -> {"ok", "err"}],
     commit : {"ok", "err", "badConn", "ctxErr"},
     rollback : {"ok", "err", "badConn"}]

Ev(e, i) == [ev |-> e, i |-> i]

\* The run of one call: the events that reached the driver, the statements
\* prepared so far, whether the Tx is finished, and what the call returns
\* (result 0 is a nil sql.Result, result i the result of the i-th statement).
NewRun(name, n, o) ==
    [fn |-> name, n |-> n, o |-> o, log |-> <<>>, stmts |-> <<>>,
     txdone |-> FALSE, result |-> 0, err |-> Nil]

NoTx == NewRun("none", 0, [begin |-> "ok", prep |-> <<>>, exec |-> <<>>,
                           commit |-> "ok", rollback |-> "ok"])

AllClosed(stmts) == [i \in 1..Len(stmts) |-> "closed"]

\* Prepare on the pool or on the Tx succeeded: one more open statement.
Prepared(s, i) ==
    [s EXCEPT !.stmts = Append(@, "open"), !.log = Append(@, Ev("Prepare", i))]

\* stat.Exec
Executed(s, i) == [s EXCEPT !.log = Append(@, Ev("Exec", i))]

\* stat.Close on the statement prepared last.
StmtClose(s) ==
    [s EXCEPT !.stmts = [@ EXCEPT ![Len(@)] = "closed"],
              !.log = Append(@, Ev("Close", Len(s.stmts)))]

\* tx.Rollback: ErrTxDone and nothing else on a finished Tx.
TxRollback(s) ==
    IF s.txdone THEN s
    ELSE [s EXCEPT !.txdone = TRUE,
                   !.stmts = IF s.o.rollback = "badConn" THEN @ ELSE AllClosed(@),
                   !.log = Append(@, Ev("Rollback", 0))]

\* tx.Commit: the context's error before anything is done, else the Tx is
\* finished whatever the driver answers.
TxCommit(s) ==
    IF s.o.commit = "ctxErr" THEN s
    ELSE [s EXCEPT !.txdone = TRUE,
                   !.stmts = IF s.o.commit = "badConn" THEN @ ELSE AllClosed(@),
                   !.log = Append(@, Ev("Commit", 0))]

CommitErr(s) == IF s.o.commit = "ok" THEN Nil ELSE "commit error"

Return(s, result, err) == [s EXCEPT !.result = result, !.err = err]

\* Conn.execute: Prepare on the pool, deferred stat.Close, Exec.
ConnExecute(s) ==
    IF s.o.prep[1] = "err" THEN Return(s, 0, "prepare error")
    ELSE LET x == Executed(Prepared(s, 1), 1) IN
         IF s.o.exec[1] = "err"
         THEN Return(StmtClose(x), 0, "exec error")
         ELSE Return(StmtClose(x), 1, Nil)

\* Conn.ExecTx: the deferred stat.Close runs before the deferred Rollback.
ExecTx(s) ==
    IF s.o.begin = "err" THEN Return(s, 0, "begin error")
    ELSE LET b == [s EXCEPT !.log = Append(@, Ev("Begin", 0))] IN
         IF s.o.prep[1] = "err" THEN Return(TxRollback(b), 0, "prepare error")
         ELSE LET x == Executed(Prepared(b, 1), 1) IN
              IF s.o.exec[1] = "err"
              THEN Return(TxRollback(StmtClose(x)), 0, "exec error")
              ELSE Return(TxRollback(StmtClose(TxCommit(x))), 1, CommitErr(s))

\* The loop going on to the next statement after a failed Exec.
RECURSIVE BatchLoopSkipsFailed(_, _)
BatchLoopSkipsFailed(s, i) ==
    IF i > s.n
    THEN Return(TxRollback(TxCommit(s)), s.n, CommitErr(s))
    ELSE IF s.o.prep[i] = "err" THEN Return(TxRollback(s), 0, "prepare error")
    ELSE BatchLoopSkipsFailed(StmtClose(Executed(Prepared(s, i), i)), i + 1)

\* The loop of ExecBatchTx from statement i on, then Commit; the deferred
\* Rollback runs on every return.
RECURSIVE BatchLoop(_, _)
BatchLoop(s, i) ==
    IF i > s.n
    THEN Return(TxRollback(TxCommit(s)), s.n, CommitErr(s))
    ELSE IF s.o.prep[i] = "err" THEN Return(TxRollback(s), 0, "prepare error")
    ELSE LET x == Executed(Prepared(s, i), i) IN
         IF s.o.exec[i] = "err"
         THEN Return(TxRollback(x), 0, "exec error")
         ELSE BatchLoop(StmtClose(x), i + 1)

\* Conn.ExecBatchTx
ExecBatchTx(s) ==
    IF s.o.begin = "err" THEN Return(s, 0, "begin error")
    ELSE LET b == [s EXCEPT !.log = Append(@, Ev("Begin", 0))] IN
         IF s.n = 0 THEN Return(TxRollback(b), 0, "empty submit tx")
         ELSE BatchLoop(b, 1)

ExecuteCall ==
    /\ txrun.fn = "none"
    /\ txrun.n = 1
    /\ txrun' = ConnExecute([txrun EXCEPT !.fn = "execute"])
    /\ UNCHANGED <<kv, got, m, fn, sent, done, variant, pool, connPool, dbs, reg,
                   proc, lock>>

ExecTxCall ==
    /\ txrun.fn = "none"
    /\ txrun.n = 1
    /\ txrun' = ExecTx([txrun EXCEPT !.fn = "ExecTx"])
    /\ UNCHANGED <<kv, got, m, fn, sent, done, variant, pool, connPool, dbs, reg,
                   proc, lock>>

ExecBatchTxCall ==
    /\ txrun.fn = "none"
    /\ txrun' = ExecBatchTx([txrun EXCEPT !.fn = "ExecBatchTx"])
    /\ UNCHANGED <<kv, got, m, fn, sent, done, variant, pool, connPool, dbs, reg,
                   proc, lock>>

-----------------------------------------------------------------------------
(* Specifications                                                          *)

IdleSplit == kv = EmptyPool /\ got = NoSplit

IdleDispatch ==
    /\ m = [Op |-> C, Table |-> Table, Query |-> [Fields |-> <<>>, Batch |-> FALSE],
            Values |-> EmptyPool, Where |-> EmptyPool]
    /\ fn = "none"
    /\ sent = <<>>
    /\ done = NoDone

IdleRegistry ==
    /\ pool = EmptyPool
    /\ connPool = EmptyPool
    /\ dbs = <<>>
    /\ reg = NoReg

IdleTx == txrun = NoTx

IdleLock == proc = [p \in Procs |-> IdleProc] /\ lock = FreeLock

\* The splitter applied once to a map of the input set.
InitSplit ==
    /\ kv \in KeyValues(SplitKeys)
    /\ got = NoSplit
    /\ IdleDispatch
    /\ variant = "New"
    /\ IdleRegistry
    /\ IdleTx
    /\ IdleLock

NextSplit == DoSplit \/ DoSplitWrap

SpecSplit == InitSplit /\ [][NextSplit]_vars

\* One dispatch of a descriptor of the input set.
InitDispatch ==
    /\ IdleSplit
    /\ m \in Metas
    /\ fn = "none"
    /\ sent = <<>>
    /\ done = NoDone
    /\ variant = "New"
    /\ IdleRegistry
    /\ IdleTx
    /\ IdleLock

NextDispatch ==
    \/ Do
    \/ EasyInsertCall
    \/ EasyDeleteCall
    \/ EasyUpdateCall
    \/ EasySelectCall
    \/ EasySelectBatchCall

SpecDispatch == InitDispatch /\ [][NextDispatch]_vars

\* The registry of one build, from the empty registry.
InitRegistry ==
    /\ IdleSplit
    /\ IdleDispatch
    /\ variant \in Variants
    /\ IdleRegistry
    /\ IdleTx
    /\ IdleLock

NextRegistry ==
    \/ RegisterDBCall
    \/ UnregisterDBCall
    \/ GetCall
    \/ NewCall
    \/ CloseAllCall
    \/ DBCall
    \/ ConnPingCall
    \/ ConnStatsCall
    \/ ConnCloseCall

SpecRegistry == InitRegistry /\ [][NextRegistry]_vars

\* One call of execute, ExecTx or ExecBatchTx against a scripted driver.
InitTx ==
    /\ IdleSplit
    /\ IdleDispatch
    /\ variant = "New"
    /\ IdleRegistry
    /\ \E n \in 0..MaxTxs : \E o \in TxScripts(n) : txrun = NewRun("none", n, o)
    /\ IdleLock

NextTx == ExecuteCall \/ ExecTxCall \/ ExecBatchTxCall

SpecTx == InitTx /\ [][NextTx]_vars

\* The registry of one build under concurrent callers.
InitLock ==
    /\ IdleSplit
    /\ IdleDispatch
    /\ variant \in Variants
    /\ IdleRegistry
    /\ IdleTx
    /\ IdleLock

\* The steps a goroutine takes inside a call.
Progress ==
    \E p \in Procs :
        \/ LockStep(p)
        \/ LockWaitStep(p)
        \/ ValidateStep(p)
        \/ RangeStep(p)
        \/ SweepStep(p)
        \/ UnlockStep(p)
        \/ RLockStep(p)
        \/ LookupStep(p)
        \/ RUnlockStep(p)
        \/ ReturnStep(p)

NextLock ==
    \/ \E p \in Procs :
          \/ RegisterDBEnter(p)
          \/ NewEnter(p)
          \/ UnregisterDBEnter(p)
          \/ CloseAllEnter(p)
          \/ GetEnter(p)
          \/ DBEnter(p)
    \/ Progress

SpecLock == InitLock /\ [][NextLock]_vars

Init == InitSplit \/ InitDispatch \/ InitRegistry \/ InitTx \/ InitLock

Next == NextSplit \/ NextDispatch \/ NextRegistry \/ NextTx \/ NextLock

Spec == Init /\ [][Next]_vars

-----------------------------------------------------------------------------
(* Reading statement text back                                             *)

\* The positions of token x in text s, ascending.
Positions(s, x) == SelectSeq([i \in 1..Len(s) |-> i], LAMBDA i : s[i] = x)

\* strings.Split(s, sep) for a one-token separator.
RECURSIVE Pieces(_, _)
Pieces(s, sep) ==
    IF \A i \in 1..Len(s) : s[i] # sep THEN <<s>>
    ELSE LET i == CHOOSE j \in 1..Len(s) :
                      s[j] = sep /\ \A l \in 1..(j - 1) : s[l] # sep
         IN <<SubSeq(s, 1, i - 1)>> \o Pieces(SubSeq(s, i + 1, Len(s)), sep)

Size(q) == Cardinality(DOMAIN q)

IsWrite == {C, U, D}

-----------------------------------------------------------------------------
(* Claims about the splitter (SpecSplit)                                   *)

\* C2: for a non-empty map, one Split call returns len(map) quoted fields,
\* len(map) placeholders and len(map) arguments, every key exactly once, the
\* i-th argument being the value stored under the i-th field; one SplitWrap
\* call returns len(map) field=? assignments with the same correspondence.
C2_SplitPositional ==
    (got.call # "none" /\ Size(kv) > 0) =>
        LET n == Size(kv)
            p == Pieces(got.ps, ",")
            f == Pieces(got.field, ",")
        IN /\ Len(got.args) = n
           /\ Len(p) = n
           /\ got.call = "Split" =>
                /\ Len(f) = n
                /\ \A i \in 1..n :
                     /\ p[i] = <<"?">>
                     /\ \E k \in DOMAIN kv : f[i] = <<BQ, k, BQ>> /\ got.args[i] = kv[k]
                /\ \A k \in DOMAIN kv :
                     Cardinality({i \in 1..n : f[i] = <<BQ, k, BQ>>}) = 1
           /\ got.call = "SplitWrap" =>
                /\ \A i \in 1..n :
                     \E k \in DOMAIN kv :
                        p[i] = <<BQ, k, BQ, "=", "?">> /\ got.args[i] = kv[k]
                /\ \A k \in DOMAIN kv :
                     Cardinality({i \in 1..n : p[i] = <<BQ, k, BQ, "=", "?">>}) = 1

C2_Witness ==
    /\ got.call = "Split"
    /\ Size(kv) = 3
    /\ got.args[1] # got.args[3]
    /\ got.field[2] = "Field3"

-----------------------------------------------------------------------------
(* Claims about the dispatcher (SpecDispatch)                              *)

IsUpdateCall == (fn = "Do" /\ m.Op = U) \/ (fn = "EasyUpdate" /\ sent # <<>>)

\* C1: an Update dispatch hands the connection the value arguments followed
\* by the condition arguments, |V|+|W| in all, and the k-th placeholder of
\* UPDATE <table> SET <assignments> WHERE <conditions> stands after the
\* column whose value is the k-th argument (a SET column of the value map
\* before WHERE, a condition column of the condition map after it).
C1_UpdateArgsOrder ==
    IsUpdateCall =>
        /\ Len(sent) = 1
        /\ LET q == sent[1].query
               a == sent[1].args
               marks == Positions(q, "?")
               where == Positions(q, " WHERE ")
           IN /\ q[1] = "UPDATE " /\ q[2] = m.Table /\ q[3] = " SET "
              /\ Len(where) = 1
              /\ Len(a) = Size(m.Values) + Size(m.Where)
              /\ Len(marks) = Len(a)
              /\ \A k \in 1..Len(marks) :
                   LET col == q[marks[k] - 3] IN
                   IF k <= Size(m.Values)
                   THEN /\ marks[k] < where[1]
                        /\ col \in DOMAIN m.Values
                        /\ a[k] = m.Values[col]
                   ELSE /\ marks[k] > where[1]
                        /\ col \in DOMAIN m.Where
                        /\ a[k] = m.Where[col]

C1_Witness ==
    /\ fn = "Do"
    /\ m.Op = U
    /\ Size(m.Values) = 2
    /\ Size(m.Where) = 2
    /\ Len(sent) = 1
    /\ sent[1].args = <<"foo", "foo", "bar", "bar">>

EmptyWrite ==
    \/ fn = "Do" /\ m.Op = C /\ Size(m.Values) = 0
    \/ fn = "Do" /\ m.Op = U /\ (Size(m.Values) = 0 \/ Size(m.Where) = 0)
    \/ fn = "Do" /\ m.Op = D /\ Size(m.Where) = 0
    \/ fn = "EasyInsert" /\ Size(m.Values) = 0
    \/ fn = "EasyUpdate" /\ (Size(m.Values) = 0 \/ Size(m.Where) = 0)
    \/ fn = "EasyDelete" /\ Size(m.Where) = 0

\* C6: a write dispatched with an empty value map (Create, Update) or an
\* empty condition map (Update, Delete) returns an error from the dispatcher
\* and no statement reaches the connection, for Meta.Do and for Easy*.
C6_EmptyMapRejected == EmptyWrite => (done.Err # Nil /\ sent = <<>>)

\* C7: Meta.Do with a kind outside {C, U, R, D} returns ErrInvalidCurd with
\* no result, row or rows, calls nothing on the connection, and LastInsertId
\* and RowsAffected on the wrapper return ErrResultNil.
C7_InvalidOperation ==
    (fn = "Do" /\ m.Op \notin {C, U, R, D}) =>
        /\ done.Err = ErrInvalidCurd
        /\ done.result = Nil /\ done.row = Nil /\ done.rows = Nil
        /\ sent = <<>>
        /\ LastInsertId(done).err = ErrResultNil
        /\ RowsAffected(done).err = ErrResultNil

C7_Witness == fn = "Do" /\ m.Op = 255 /\ done.Err = ErrInvalidCurd /\ Size(m.Where) = 1

Populated(d) ==
    {x \in {"result", "row", "rows"} :
        \/ x = "result" /\ d.result # Nil
        \/ x = "row" /\ d.row # Nil
        \/ x = "rows" /\ d.rows # Nil}

\* C9: a Done returned by Meta.Do has at most one payload populated: only
\* the write result for C, U, D; only the row, by exactly one single-row
\* query, for R without Batch; only the rows, by exactly one multi-row query,
\* for R with Batch; and exactly one when the dispatch succeeded.
C9_OnePayload ==
    fn = "Do" =>
        /\ Cardinality(Populated(done)) <= 1
        /\ m.Op \in IsWrite => Populated(done) \subseteq {"result"}
        /\ (m.Op = R /\ ~m.Query.Batch) =>
              /\ Populated(done) = {"row"}
              /\ Len(sent) = 1 /\ sent[1].prim = "QueryRow"
        /\ (m.Op = R /\ m.Query.Batch) =>
              /\ Populated(done) \subseteq {"rows"}
              /\ Len(sent) = 1 /\ sent[1].prim = "QueryRows"
        /\ (done.Err = Nil /\ m.Op \in {C, U, R, D}) => Cardinality(Populated(done)) = 1

C9_Witness ==
    /\ fn = "Do"
    /\ m.Op = R
    /\ m.Query.Batch
    /\ done.rows # Nil
    /\ Row(done) = Nil

\* C10: every column name in statement text is wrapped in backquotes: the
\* INSERT field list, the SET assignments, the WHERE conditions and a SELECT
\* projection built from an explicit field list, by Meta.Do and by Easy*.
C10_ColumnsQuoted ==
    \A c \in 1..Len(sent) :
        LET q == sent[c].query IN
        \A i \in 1..Len(q) :
            q[i] \in Keys => (i > 1 /\ i < Len(q) /\ q[i - 1] = BQ /\ q[i + 1] = BQ)

-----------------------------------------------------------------------------
(* Claims about the registry (SpecRegistry)                                *)

IsRegister(r) == r.op \in {"RegisterDB", "New"}
IsUnregister(r) == r.op \in {"UnregisterDB", "CloseAll"}
IsLookup(r) == r.op \in {"Get", "DB"}

\* C3: after UnregisterDB / CloseAll the mapping is empty and every pool it
\* held is closed; a Lookup that follows it returns no handle (the
\* not-registered error for a non-empty name); a second sweep changes nothing.
C3_UnregisterClears ==
    [][/\ IsUnregister(reg') =>
            /\ DOMAIN pool' = {}
            /\ DOMAIN connPool' = {}
            /\ \A n \in DOMAIN pool : dbs'[pool[n]] = "closed"
            /\ \A n \in DOMAIN connPool : dbs'[connPool[n]] = "closed"
       /\ (IsUnregister(reg) /\ IsLookup(reg')) =>
            /\ reg'.conn.isNil
            /\ reg'.name # "" => reg'.err = ErrUnregister
       /\ (IsUnregister(reg) /\ IsUnregister(reg')) =>
            /\ pool' = pool /\ connPool' = connPool /\ dbs' = dbs
      ]_vars

\* C4: registering a name that is already in the registry fails with an
\* error and leaves the entry untouched; no Register call replaces an entry.
C4_NoOverwrite ==
    [][IsRegister(reg') =>
         /\ \A n \in DOMAIN pool : n \in DOMAIN pool' /\ pool'[n] = pool[n]
         /\ \A n \in DOMAIN connPool : n \in DOMAIN connPool' /\ connPool'[n] = connPool[n]
         /\ (reg'.names \cap (DOMAIN pool \cup DOMAIN connPool) # {}) => reg'.err # Nil
      ]_vars

\* C5: Lookup of "" fails with ErrConnName whatever the registry holds;
\* Lookup of an absent non-empty name fails with ErrUnregister; Lookup of a
\* present name returns, with no error, a handle on the pool stored under
\* it; Lookup leaves the registry and the pools as they were.
C5_Lookup ==
    [][IsLookup(reg') =>
         /\ pool' = pool /\ connPool' = connPool /\ dbs' = dbs
         /\ LET p == IF reg'.op = "Get" THEN pool ELSE connPool
                n == reg'.name
            IN /\ n = "" => (reg'.err = ErrConnName /\ reg'.conn.isNil)
               /\ (n # "" /\ n \notin DOMAIN p) =>
                      (reg'.err = ErrUnregister /\ reg'.conn.isNil)
               /\ (n # "" /\ n \in DOMAIN p) =>
                      (reg'.err = Nil /\ reg'.conn = Conn(p[n]))
      ]_vars

C5_Witness ==
    /\ reg.op = "Get"
    /\ reg.name = ""
    /\ reg.err = ErrConnName
    /\ DOMAIN pool = {"", "game"}

\* C8: a Register call with a config whose DSN is empty or whose pool size,
\* lifetime or idle time is negative fails with the config-invalid error,
\* opens no pool and leaves the registry unchanged.
C8_InvalidConfigRejected ==
    [][(IsRegister(reg') /\ ~reg'.valid) =>
         /\ reg'.err = ErrConfig
         /\ pool' = pool /\ connPool' = connPool /\ dbs' = dbs
      ]_vars

IsHandleOp(r) == r.op \in {"Conn.Ping", "Conn.Stats", "Conn.Close"}

\* The pools the registry of the build holds.
Registered(p, q) == {p[n] : n \in DOMAIN p} \cup {q[n] : n \in DOMAIN q}

AllOpen(p, q, d) == \A i \in Registered(p, q) : d[i] = "open"

\* C11: a handle is non-owning: no operation on a handle closes a registered
\* pool, so a step that is not UnregisterDB / CloseAll keeps every name of the
\* registry on an open pool.
C11_HandleNonOwning ==
    [][/\ IsHandleOp(reg') =>
            \A i \in Registered(pool, connPool) : dbs[i] = "open" => dbs'[i] = "open"
       /\ ~IsUnregister(reg') =>
            (AllOpen(pool, connPool, dbs) => AllOpen(pool', connPool', dbs'))
      ]_vars

RegisterFailed(r) == IsRegister(r) /\ r.err \in {"open error", "ping error"}

-----------------------------------------------------------------------------
(* Claims about statements and transactions (SpecTx)                       *)

\* C13: when execute, ExecTx or ExecBatchTx has returned, every statement
\* it prepared has been closed, on every return path.
C13_StatementsClosed ==
    txrun.fn # "none" => \A i \in 1..Len(txrun.stmts) : txrun.stmts[i] = "closed"

Logged(e, i) == \E k \in 1..Len(txrun.log) : txrun.log[k] = Ev(e, i)

\* Every statement of the batch was prepared and executed successfully.
AllRan ==
    /\ txrun.o.begin = "ok"
    /\ txrun.n > 0
    /\ \A i \in 1..txrun.n : txrun.o.prep[i] = "ok" /\ txrun.o.exec[i] = "ok"

\* The first statement whose Prepare or Exec fails (n + 1 when none does).
FirstFailure ==
    CHOOSE i \in 1..(txrun.n + 1) :
        /\ i <= txrun.n => (txrun.o.prep[i] = "err" \/ txrun.o.exec[i] = "err")
        /\ \A j \in 1..(i - 1) : txrun.o.prep[j] = "ok" /\ txrun.o.exec[j] = "ok"

Committed == Logged("Commit", 0) /\ txrun.o.commit = "ok"

\* The statements ran in the order given, each prepared, executed and
\* closed before the next, between Begin and Commit.
RanInOrder ==
    /\ Len(txrun.log) >= 3 * txrun.n + 2
    /\ txrun.log[1] = Ev("Begin", 0)
    /\ \A i \in 1..txrun.n :
         /\ txrun.log[3 * i - 1] = Ev("Prepare", i)
         /\ txrun.log[3 * i] = Ev("Exec", i)
         /\ txrun.log[3 * i + 1] = Ev("Close", i)
    /\ txrun.log[3 * txrun.n + 2] = Ev("Commit", 0)

\* What C14 says of a call apart from when the transaction is committed: at
\* the first failure nothing later runs, the call returns nil and the error
\* and Rollback is issued; an empty batch is an error and never commits; a
\* call without error returns the result of the last statement.
BatchShape ==
    /\ Committed => RanInOrder
    /\ (txrun.o.begin = "ok" /\ txrun.n > 0 /\ FirstFailure <= txrun.n) =>
          /\ \A j \in (FirstFailure + 1)..txrun.n :
                ~Logged("Prepare", j) /\ ~Logged("Exec", j)
          /\ Logged("Exec", FirstFailure) <=> txrun.o.prep[FirstFailure] = "ok"
          /\ txrun.result = 0
          /\ txrun.err = IF txrun.o.prep[FirstFailure] = "err"
                         THEN "prepare error" ELSE "exec error"
          /\ ~Logged("Commit", 0)
          /\ Logged("Rollback", 0)
    /\ (txrun.o.begin = "ok" /\ txrun.n = 0) =>
          /\ txrun.err = "empty submit tx"
          /\ txrun.result = 0
          /\ ~Logged("Commit", 0)
    /\ txrun.err = Nil => (txrun.result = txrun.n /\ txrun.n > 0 /\ Committed)

-----------------------------------------------------------------------------
(* Claims about the registry under concurrent callers (SpecLock)           *)

IsRegisterOp(op) == op \in {"RegisterDB", "New"}

\* A goroutine is inside the registry as a writer: past Lock(), with its
\* deferred Unlock() still to run.
Writing(p) == proc[p].pc \in {"Validate", "range", "sweep", "Unlock"}

\* A goroutine is inside the registry as a reader: past RLock(), with its
\* deferred RUnlock() still to run.
Reading(p) == proc[p].pc \in {"lookup", "RUnlock"}

\* C12: under any interleaving of Register, UnregisterAll and Lookup calls,
\* at most one Register / UnregisterAll is inside the registry at a time and
\* no Lookup reads the map while one is; so a Lookup that is about to read
\* finds no Register part-way through its batch (every Register has stored
\* none of its entries yet, or has returned, with its whole batch stored if
\* it returns no error); a goroutine that has returned,
\* on any return path, holds no guard; and while some call is in flight some
\* call in flight can take a step.
C12_Guarded ==
    /\ \A p \in Procs : \A q \in Procs \ {p} : ~(Writing(p) /\ Writing(q))
    /\ \A p \in Procs, q \in Procs : ~(Writing(p) /\ Reading(q))
    /\ \A p \in Procs :
         proc[p].pc = "lookup" =>
            \A q \in Procs :
               IsRegisterOp(proc[q].op) =>
                  \/ proc[q].added = {}
                  \/ proc[q].pc = "return" /\ (proc[q].err = Nil => proc[q].todo = {})
    /\ \A p \in Procs :
         proc[p].pc \in {"idle", "return"} => lock.w # p /\ p \notin lock.r
    /\ (\A p \in Procs : proc[p].pc = "idle") => lock = FreeLock
    /\ (\E p \in Procs : proc[p].pc # "idle") => ENABLED Progress

\* A Register that has stored one entry of two, a Lookup of that entry held
\* back at RLock().
C12_Witness ==
    \E p \in Procs, q \in Procs :
        /\ IsRegisterOp(proc[p].op)
        /\ proc[p].pc = "range"
        /\ proc[p].added = {"game"}
        /\ proc[p].todo = {""}
        /\ proc[q].pc = "RLock"
        /\ proc[q].name = "game"
        /\ "game" \in DOMAIN TheMap

====
